---- MODULE Spec2Model ----
(***************************************************************************)
(* A model of dataset_generator.py: the backoff-retrying fetcher           *)
(* (BackoffSession.get_json), the two connectors (usgs_fetch,              *)
(* holidays_fetch) and the fetch / merge / persist pipeline of the         *)
(* earthquakes and holidays commands, run repeatedly against one output    *)
(* directory.                                                              *)
(***************************************************************************)
EXTENDS Integers, Sequences, FiniteSets, TLC

(***************************************************************************)
(* Bounds of the model.                                                    *)
(***************************************************************************)
\* Rows one HTTP response carries at most.
MaxFetch == 2
\* Commands started on the output directory in one behaviour.
MaxRuns == 2
\* Requests one get_json call is followed for (its loop has no bound of its
\* own when the statuses are neither 200, retried nor errors).
MaxAttempts == 7

(***************************************************************************)
(* Program constants.                                                      *)
(***************************************************************************)
\* BackoffSession.__init__(max_retries=5, backoff=1.5); both connectors
\* construct the session with these defaults.
max_retries == 5
\* backoff = 1.5 = 3/2, kept as a fraction.
backoffNum == 3
backoffDen == 2

(***************************************************************************)
(* HTTP responses.                                                         *)
(***************************************************************************)
\* Representative statuses: success, a non-error status other than 200, a
\* client error, 429, and 5xx statuses inside and outside the retried set.
Statuses == {200, 204, 404, 429, 500, 501, 503}

\* The statuses get_json retries (line 85).
RetriedStatuses == {429, 500, 502, 503, 504}

\* Retry-After header values: None (header absent), delta-seconds, and the
\* HTTP-date form, which float() rejects with ValueError.
NoHeader == "None"
RetryAfterValues == {NoHeader, "3", "Wed, 21 Oct 2015 07:28:00 GMT"}

\* float(ra) succeeds (no ValueError).
IsFloat(ra) == ra = "3"

\* float(ra), as a fraction <<num, den>>.
ParseFloat(ra) == <<3, 1>>

RECURSIVE Pow(_, _)
Pow(b, e) == IF e = 0 THEN 1 ELSE b * Pow(b, e - 1)

\* self.backoff ** attempt, as a fraction.
BackoffDelay(a) == <<Pow(backoffNum, a), Pow(backoffDen, a)>>

\* Lines 87-94: the delay slept after a retried response.
RetryDelay(ra, a) ==
  IF ra # NoHeader
    THEN IF IsFloat(ra) THEN ParseFloat(ra) ELSE BackoffDelay(a)
    ELSE BackoffDelay(a)

\* Line 85 with the ceiling compared by <= : one retry too many.
ShouldRetryUpToCeiling(status, a) == status \in RetriedStatuses /\ a <= max_retries

\* Line 85: the response is retried.
ShouldRetry(status, a) == status \in RetriedStatuses /\ a < max_retries

\* raise_for_status raising on server errors only.
RaisesForServerError(status) == status >= 500 /\ status < 600

\* requests.Response.raise_for_status raises HTTPError for 400 <= status < 600.
RaisesForStatus(status) == status >= 400 /\ status < 600

\* One iteration of the loop of get_json (lines 81-97), given the response
\* to the request of attempt a: the call returns the body, sleeps and
\* goes round again, raises, or goes round again at once (raise_for_status
\* returned without raising).
GetJsonOutcome(status, a) ==
  IF status = 200 THEN "return"
  ELSE IF ShouldRetry(status, a) THEN "sleep"
  ELSE IF RaisesForStatus(status) THEN "raise"
  ELSE "again"

\* The responses the upstream may give. The Retry-After header is read on
\* retried statuses only.
Responses ==
  { [status |-> s, retry_after |-> h] : s \in RetriedStatuses \cap Statuses,
                                        h \in RetryAfterValues }
  \cup { [status |-> s, retry_after |-> NoHeader] : s \in Statuses }

(***************************************************************************)
(* Rows and frames.  A frame (pandas DataFrame) is a sequence of rows.     *)
(* An earthquake row carries usgs_id and time, a holiday row date,         *)
(* countryCode and local_name: the columns the merge reads, and one more   *)
(* by which two rows of one key differ.                                    *)
(***************************************************************************)
Ids == {"us1", "us2"}
\* ISO-8601 time texts, by their rank in string order.
Times == {1, 2}
\* ISO dates, by their rank in string order.
Dates == {1, 2}
LocalNames == {"a", "b"}
\* ISO 3166-1 alpha-2 codes the holidays command may be given (France, Namibia).
Countries == {"FR", "NA"}

\* The missing value of pandas (NaN), as read_csv produces it.
NaN == "<NaN>"

EqRows == [usgs_id : Ids, time : Times]
HolRows(cc) == [date : Dates, countryCode : {cc}, local_name : LocalNames]

RECURSIVE SeqsUpTo(_, _)
SeqsUpTo(S, n) ==
  IF n = 0 THEN {<<>>}
  ELSE LET shorter == SeqsUpTo(S, n - 1)
       IN  shorter \cup {Append(q, x) : q \in {t \in shorter : Len(t) = n - 1}, x \in S}

\* Rank of a countryCode value in sort order; sort_values puts NaN last.
CcRank(c) == CASE c = "FR" -> 1 [] c = "NA" -> 2 [] OTHER -> 3

\* sort_values("time") and sort_values(["date", "countryCode"]): the rank of
\* a row under the sort key.
TimeKey(row) == row.time
DateCountryKey(row) == row.date * 4 + CcRank(row.countryCode)
\* The sort keys of the rows of a frame.
TimeKeys(rows) == [i \in DOMAIN rows |-> TimeKey(rows[i])]
DateCountryKeys(rows) == [i \in DOMAIN rows |-> DateCountryKey(rows[i])]

\* The orders (sequences of indices) of the indices left that are ascending
\* in keys.
RECURSIVE AscendingOrders(_, _)
AscendingOrders(keys, left) ==
  IF left = {} THEN {<<>>}
  ELSE LET least == {i \in left : \A j \in left : keys[i] <= keys[j]}
       IN  UNION { {<<i>> \o rest : rest \in AscendingOrders(keys, left \ {i})} : i \in least }

\* DataFrame.sort_values: the default sort (quicksort) is not stable, so
\* any order of the rows that is ascending in the key may come out.
\* keys[i] is the rank of rows[i] under the sort key.
SortValues(rows, keys) ==
  { [n \in DOMAIN rows |-> rows[p[n]]] : p \in AscendingOrders(keys, DOMAIN rows) }

\* drop_duplicates(subset=...): the dedup key of a row.
UsgsIdKey(row) == <<row.usgs_id>>
DateCountryDedupKey(row) == <<row.date, row.countryCode>>
\* The dedup keys of the rows of a frame.
UsgsIdKeys(rows) == [i \in DOMAIN rows |-> UsgsIdKey(rows[i])]
DateCountryDedupKeys(rows) == [i \in DOMAIN rows |-> DateCountryDedupKey(rows[i])]

\* The rows at the indices of keep, in order.
RECURSIVE SelectAt(_, _)
SelectAt(rows, keep) ==
  IF rows = <<>> THEN <<>>
  ELSE LET n == Len(rows)
           init == SelectAt(SubSeq(rows, 1, n - 1), keep)
       IN  IF n \in keep THEN Append(init, rows[n]) ELSE init

\* DataFrame.drop_duplicates(subset, keep="first"): a row stays unless an
\* earlier row has the same key.  keys[i] is the key of rows[i].
DropDuplicates(rows, keys) ==
  SelectAt(rows, {i \in DOMAIN rows : \A j \in 1 .. (i - 1) : keys[j] # keys[i]})

(***************************************************************************)
(* CSV files.  A file is absent, or holds a head and row lines:            *)
(*   head "none"  : zero bytes (a file opened for writing, nothing written)*)
(*   head "blank" : the single empty line to_csv writes for a frame        *)
(*                  without columns (pd.DataFrame() / pd.DataFrame([]))    *)
(*   head "cols"  : the line of column names, followed by the row lines.   *)
(***************************************************************************)
Absent == [exists |-> FALSE, head |-> "none", rows |-> <<>>]
Truncated == [exists |-> TRUE, head |-> "none", rows |-> <<>>]

\* to_csv of one value: NaN is written as the empty text (na_rep="").
ToCsvField(v) == IF v = NaN THEN "" ELSE v
\* read_csv of one text: the default na_values ("", "NA", "NaN", "null", ...)
\* are read as NaN.
ReadCsvField(t) == IF t \in {"", "NA"} THEN NaN ELSE t

\* A row as its line of text and back.  Ids, times, dates and names are
\* texts that read_csv leaves as they are; countryCode may be an NA token.
ToCsvRow(row) ==
  IF "countryCode" \in DOMAIN row
    THEN [row EXCEPT !.countryCode = ToCsvField(row.countryCode)]
    ELSE row
ReadCsvRow(line) ==
  IF "countryCode" \in DOMAIN line
    THEN [line EXCEPT !.countryCode = ReadCsvField(line.countryCode)]
    ELSE line

\* DataFrame.to_csv(path, index=False): the complete text of the file.
\* hasColumns is false for the frame without columns.
ToCsv(rows, hasColumns) ==
  [exists |-> TRUE,
   head   |-> IF hasColumns THEN "cols" ELSE "blank",
   rows   |-> [i \in DOMAIN rows |-> ToCsvRow(rows[i])]]

\* pd.read_csv(path) raises EmptyDataError when the file has no line of
\* column names.
ReadCsvFails(file) == file.head # "cols"
ReadCsv(file) == [i \in DOMAIN file.rows |-> ReadCsvRow(file.rows[i])]

\* What an interrupted or failed to_csv may leave of the text: the file was
\* opened for writing (truncated) and some whole lines were written.
PartialWrites(text) ==
  {Truncated} \cup
  (IF text.head = "cols"
     THEN {[text EXCEPT !.rows = SubSeq(text.rows, 1, k)] : k \in 0 .. (Len(text.rows) - 1)}
     ELSE {})

(***************************************************************************)
(* Command-line arguments and the run state.                               *)
(***************************************************************************)
\* Days (ISO dates, by rank) a run may be given or may run on.
Days == {1, 2}
\* The value of an argument that was not given (None).
NotGiven == 0
\* --bbox texts: not given, the empty text, four numbers, three numbers
\* (SystemExit), not numbers (ValueError from float()).
BBoxArgs == {"None", "", "1,2,3,4", "1,2,3", "a,b,c,d"}
\* Line 183, "if args.bbox:": None and the empty text are not looked at.
BBoxIsGiven(b) == b \notin {"None", ""}
BBoxIsValid(b) == ~BBoxIsGiven(b) \/ b = "1,2,3,4"
\* Lines 184-186: float() raises ValueError, a wrong count SystemExit.
BBoxError(b) == IF b = "1,2,3" THEN "SystemExit" ELSE "ValueError"

\* --years texts, split on the first ":" (str.split(":", 1)).
YearTexts == {"1", "2", "x"}
YearSpans == {<<a>> : a \in YearTexts} \cup {<<a, b>> : a, b \in YearTexts}
\* args.years: not given (None, here the empty tuple), the empty text, or a
\* span.
NoYears == <<>>
YearsArgs == {NoYears, <<"">>} \cup YearSpans
\* Line 265, "if args.years": None and the empty text are not parsed.
YearsIsGiven(span) == span \notin {NoYears, <<"">>}
IsInt(t) == t \in {"1", "2"}
IntOf(t) == IF t = "1" THEN 1 ELSE 2

\* list(range(a, b + 1)).
RECURSIVE Range(_, _)
Range(a, b) == IF a > b THEN <<>> ELSE <<a>> \o Range(a + 1, b)

\* parse_years_span: int() raises ValueError on a text that is no integer.
ParseYearsFails(span) == \E i \in DOMAIN span : ~IsInt(span[i])
\* parse_years_span with range(int(a), int(b)): the end year left out.
ParseYearsSpanExclusive(span) ==
  IF Len(span) = 2 THEN Range(IntOf(span[1]), IntOf(span[2]) - 1) ELSE <<IntOf(span[1])>>
ParseYearsSpan(span) ==
  IF Len(span) = 2 THEN Range(IntOf(span[1]), IntOf(span[2])) ELSE <<IntOf(span[1])>>

\* state_earthquakes.json: absent, or a text that json.loads parses to the
\* mapping with last_end, or a text it does not parse (parses is false),
\* whatever it holds of last_end.
NoStateFile == [exists |-> FALSE, parses |-> FALSE, last_end |-> NotGiven]
\* write_state: the complete text of the state with last_end = end.
StateText(end) == [exists |-> TRUE, parses |-> TRUE, last_end |-> end]
\* What an interrupted or failed write_text may leave of the text: the file
\* was opened for writing (truncated) and a part was written, with or
\* without the text of last_end.
PartialStateWrites(state) ==
  { [state EXCEPT !.parses = FALSE, !.last_end = NotGiven],
    [state EXCEPT !.parses = FALSE] }
\* The text of last_end scraped from the file without parsing it.
ReadLastEndUnparsed(sf) == IF sf.exists THEN sf.last_end ELSE NotGiven
\* read_state(path).get("last_end"): read_state returns {} when the file is
\* absent or json.loads raises, and {}.get gives None.
ReadLastEnd(sf) == IF sf.exists /\ sf.parses THEN sf.last_end ELSE NotGiven
\* Lines 176-179: the start boundary of the run.
StartBoundary(argStart, sf, today) ==
  IF argStart # NotGiven THEN argStart
  ELSE IF ReadLastEnd(sf) # NotGiven THEN ReadLastEnd(sf)
  ELSE today - 7
\* Line 180: the end boundary of the run.
EndBoundary(argEnd, today) == IF argEnd # NotGiven THEN argEnd ELSE today

\* data_card.md: absent, or the header and the sections appended so far.
NoDataCard == [exists |-> FALSE, headers |-> 0, sections |-> <<>>]
\* append_data_card: the header is written when the file does not exist.
AppendSection(card, title) ==
  [exists   |-> TRUE,
   headers  |-> IF card.exists THEN card.headers ELSE card.headers + 1,
   sections |-> Append(card.sections, title)]

\* pd.concat(frames, ignore_index=True).
RECURSIVE Concat(_)
Concat(frames) == IF frames = <<>> THEN <<>> ELSE Head(frames) \o Concat(Tail(frames))

VARIABLES
  connector,   \* the command the output directory is used with
  country,     \* args.country of the holidays command
  file,        \* the table: earthquakes.csv or public_holidays_<CC>.csv
  stateFile,   \* state_earthquakes.json
  dataCard,    \* data_card.md
  runs,        \* commands started so far
  pc,          \* where the running command is ("idle": none is running)
  overwrite,   \* args.overwrite of the running command
  argStart,    \* earthquakes: args.start of the running command
  start,       \* earthquakes: the start boundary of the running command
  argBBox,     \* earthquakes: args.bbox of the last command started
  argYears,    \* holidays: args.years of the last command started
  years,       \* holidays: the years requested
  yearIdx,     \* holidays_fetch: index of the year being fetched
  frames,      \* holidays_fetch: the frames of the years fetched so far
  calls,       \* get_json calls of the running command
  df,          \* the frame the connector returned
  text,        \* the text to_csv is writing
  before,      \* the table file when the running command started
  completed,   \* commands that ran to their end so far
  outcome,     \* how the last command ended
  attempt,     \* get_json: attempt
  resp,        \* get_json: the last response
  delay,       \* get_json: the delay last slept
  sleeps,      \* get_json: time.sleep calls so far
  result,      \* get_json: pending, returned or raised
  js,          \* get_json: the value returned
  onlyRetried, \* get_json: every response so far had a retried status
  only5xx      \* get_json: every response so far had status 429 or 5xx

diskVars == <<file, stateFile, dataCard>>
windowVars == <<argStart, start>>
argVars == <<argBBox, argYears>>
runVars == <<overwrite, windowVars, argVars, years, yearIdx, frames, calls, df, text>>
ghostVars == <<before, completed>>
commandVars == <<connector, country, diskVars, runs, pc, runVars, ghostVars, outcome>>
getJsonVars == <<attempt, resp, delay, sleeps, result, js, onlyRetried, only5xx>>

vars == <<commandVars, getJsonVars>>

NoResponse == [status |-> 0, retry_after |-> NoHeader]
NoDelay == <<0, 1>>

Init ==
  /\ connector \in {"earthquakes", "holidays"}
  /\ country \in IF connector = "holidays" THEN Countries ELSE {"-"}
  /\ file = Absent
  /\ stateFile = NoStateFile
  /\ dataCard = NoDataCard
  /\ runs = 0
  /\ pc = "idle"
  /\ overwrite = FALSE
  /\ argStart = NotGiven
  /\ start = NotGiven
  /\ argBBox = "None"
  /\ argYears = NoYears
  /\ years = <<>>
  /\ yearIdx = 0
  /\ frames = <<>>
  /\ calls = 0
  /\ df = <<>>
  /\ text = Absent
  /\ before = Absent
  /\ completed = 0
  /\ outcome = "none"
  /\ attempt = 0
  /\ resp = NoResponse
  /\ delay = NoDelay
  /\ sleeps = 0
  /\ result = "pending"
  /\ js = <<>>
  /\ onlyRetried = TRUE
  /\ only5xx = TRUE

(***************************************************************************)
(* BackoffSession.get_json, one action per way an iteration of its loop    *)
(* ends.  The call starts with attempt = 0 (line 79), which Init states.   *)
(***************************************************************************)
\* What every iteration does first: attempt += 1 and the request (lines
\* 81-82), answered by r.
Request(r) ==
  /\ result = "pending"
  /\ attempt < MaxAttempts
  /\ attempt' = attempt + 1
  /\ resp' = r
  /\ onlyRetried' = (onlyRetried /\ r.status \in RetriedStatuses)
  /\ only5xx' = (only5xx /\ (r.status = 429 \/ (r.status >= 500 /\ r.status <= 599)))

\* Lines 85-96: the response is retried after a sleep.
GetJsonSleep ==
  \E r \in Responses :
    /\ Request(r)
    /\ GetJsonOutcome(r.status, attempt + 1) = "sleep"
    /\ delay' = RetryDelay(r.retry_after, attempt + 1)
    /\ sleeps' = sleeps + 1
    /\ UNCHANGED <<commandVars, result, js>>

\* Line 97 when raise_for_status does not raise: the loop goes round again
\* without a sleep.
GetJsonAgain ==
  \E r \in Responses :
    /\ Request(r)
    /\ GetJsonOutcome(r.status, attempt + 1) = "again"
    /\ UNCHANGED <<commandVars, delay, sleeps, result, js>>

\* Line 97: raise_for_status raises the error of the response.
GetJsonRaise ==
  \E r \in Responses :
    /\ Request(r)
    /\ GetJsonOutcome(r.status, attempt + 1) = "raise"
    /\ result' = "raised"
    /\ UNCHANGED <<commandVars, delay, sleeps, js>>

\* Lines 83-84: the parsed body of a 200 response is returned.
GetJsonReturn ==
  \E r \in Responses, body \in SeqsUpTo(EqRows, MaxFetch) :
    /\ Request(r)
    /\ GetJsonOutcome(r.status, attempt + 1) = "return"
    /\ result' = "returned"
    /\ js' = body
    /\ UNCHANGED <<commandVars, delay, sleeps>>

NextGetJson ==
  \/ GetJsonSleep
  \/ GetJsonAgain
  \/ GetJsonRaise
  \/ GetJsonReturn

\* One get_json call, whatever the upstream answers.
SpecGetJson == Init /\ [][NextGetJson]_vars

(***************************************************************************)
(* The commands.  A get_json call is one step of a command: it returns     *)
(* the body of a 200 response or raises (or does not end).  The arguments  *)
(* of a command are fixed when it starts; the model draws each where the   *)
(* command first uses it, which leaves the behaviours the same (nothing    *)
(* else writes the files the values are computed from while it runs).      *)
(***************************************************************************)
\* The locals of a command that ended are gone with its process.
DropLocals ==
  /\ overwrite' = FALSE
  /\ argStart' = NotGiven
  /\ start' = NotGiven
  /\ years' = <<>>
  /\ yearIdx' = 0
  /\ frames' = <<>>
  /\ df' = <<>>
  /\ text' = Absent

\* The arguments of a command that was not rejected for them are not kept.
DropArgs ==
  /\ argBBox' = "None"
  /\ argYears' = NoYears

\* The command ends with the uncaught exception error (or SystemExit).
Abort(error) ==
  /\ pc' = "idle"
  /\ outcome' = error
  /\ before' = file
  /\ UNCHANGED completed
  /\ DropLocals

\* earthquakes_command, lines 172-189: the bounding box is parsed and
\* usgs_fetch calls get_json.
EarthquakesStart ==
  /\ pc = "idle"
  /\ connector = "earthquakes"
  /\ runs < MaxRuns
  /\ \E b \in BBoxArgs :
       /\ BBoxIsValid(b)
       /\ argBBox' = b
  /\ \E given \in {NotGiven} \cup Days, today \in Days :
       /\ argStart' = given
       /\ start' = StartBoundary(given, stateFile, today)
  /\ runs' = runs + 1
  /\ before' = file
  /\ UNCHANGED completed
  /\ pc' = "fetch"
  /\ outcome' = "running"
  /\ calls' = 1
  /\ df' = <<>>
  /\ text' = Absent
  /\ UNCHANGED <<connector, country, diskVars, overwrite, argYears, years,
                 yearIdx, frames, getJsonVars>>

\* earthquakes_command, lines 183-187: a --bbox that does not parse to four
\* numbers ends the command before usgs_fetch is called.
EarthquakesBadBBox ==
  /\ pc = "idle"
  /\ connector = "earthquakes"
  /\ runs < MaxRuns
  /\ runs' = runs + 1
  /\ calls' = 0
  /\ \E b \in BBoxArgs :
       /\ ~BBoxIsValid(b)
       /\ argBBox' = b
       /\ UNCHANGED argYears
       /\ Abort(BBoxError(b))
  /\ UNCHANGED <<connector, country, diskVars, getJsonVars>>

\* usgs_fetch, line 136: get_json raises; nothing catches the error, so the
\* command ends.
UsgsFetchRaises ==
  /\ pc = "fetch"
  /\ connector = "earthquakes"
  /\ DropArgs
  /\ Abort("HTTPError")
  /\ UNCHANGED <<connector, country, diskVars, runs, calls, getJsonVars>>

\* usgs_fetch, lines 136-168: get_json returns the features and the frame
\* is built, sorted by time unless it is empty.
UsgsFetchReturn ==
  \E body \in SeqsUpTo(EqRows, MaxFetch) :
    /\ pc = "fetch"
    /\ connector = "earthquakes"
    /\ df' \in IF body = <<>> THEN {<<>>} ELSE SortValues(body, TimeKeys(body))
    /\ pc' = "persist"
    /\ UNCHANGED <<connector, country, diskVars, runs, overwrite, windowVars, argVars,
                 years,
                   yearIdx, frames, calls, text, ghostVars, outcome,
                   getJsonVars>>

\* holidays_command, lines 264-266, and holidays_fetch up to its first
\* get_json call: with no year to fetch the empty frame is returned at once.
HolidaysStart ==
  /\ pc = "idle"
  /\ connector = "holidays"
  /\ runs < MaxRuns
  /\ \E span \in YearsArgs, thisYear \in {1, 2} :
       /\ argYears' = span
       /\ IF YearsIsGiven(span)
            THEN /\ ~ParseYearsFails(span)
                 /\ years' = ParseYearsSpan(span)
            ELSE years' = <<thisYear>>
  /\ runs' = runs + 1
  /\ before' = file
  /\ UNCHANGED completed
  /\ outcome' = "running"
  /\ frames' = <<>>
  /\ df' = <<>>
  /\ text' = Absent
  /\ IF years' = <<>>
       THEN /\ pc' = "persist"
            /\ yearIdx' = 0
            /\ calls' = 0
       ELSE /\ pc' = "fetch"
            /\ yearIdx' = 1
            /\ calls' = 1
  /\ UNCHANGED <<connector, country, diskVars, overwrite, windowVars, argBBox,
                 getJsonVars>>

\* holidays_command, line 265: parse_years_span raises ValueError.
HolidaysBadYears ==
  /\ pc = "idle"
  /\ connector = "holidays"
  /\ runs < MaxRuns
  /\ \E span \in YearsArgs :
       /\ YearsIsGiven(span)
       /\ ParseYearsFails(span)
       /\ argYears' = span
  /\ UNCHANGED argBBox
  /\ runs' = runs + 1
  /\ calls' = 0
  /\ Abort("ValueError")
  /\ UNCHANGED <<connector, country, diskVars, getJsonVars>>

\* holidays_fetch saving the frames of the years fetched so far when
\* get_json raises.
HolidaysFetchRaisesAfterSaving ==
  /\ pc = "fetch"
  /\ connector = "holidays"
  /\ file' = IF frames = <<>> THEN file ELSE ToCsv(Concat(frames), TRUE)
  /\ DropArgs
  /\ Abort("HTTPError")
  /\ UNCHANGED <<connector, country, stateFile, dataCard, runs, calls, getJsonVars>>

\* holidays_fetch, line 237: get_json raises; nothing catches the error, so
\* the command ends.
HolidaysFetchRaises ==
  /\ pc = "fetch"
  /\ connector = "holidays"
  /\ DropArgs
  /\ Abort("HTTPError")
  /\ UNCHANGED <<connector, country, diskVars, runs, calls, getJsonVars>>

\* holidays_fetch, lines 237-260: get_json returns the holidays of the
\* year; the frame is kept unless it is empty, and the next year is fetched
\* or the concatenation of the frames is returned.
HolidaysFetchReturn ==
  \E body \in SeqsUpTo(HolRows(country), MaxFetch - Len(Concat(frames))) :
    /\ pc = "fetch"
    /\ connector = "holidays"
    /\ LET kept == IF body = <<>> THEN frames ELSE Append(frames, body)
       IN  IF yearIdx < Len(years)
             THEN /\ frames' = kept
                  /\ yearIdx' = yearIdx + 1
                  /\ calls' = calls + 1
                  /\ pc' = "fetch"
                  /\ UNCHANGED df
             ELSE /\ frames' = <<>>
                  /\ UNCHANGED <<yearIdx, calls>>
                  /\ pc' = "persist"
                  /\ df' = Concat(kept)
    /\ UNCHANGED <<connector, country, diskVars, runs, overwrite, windowVars, argVars,
                 years,
                   text, ghostVars, outcome, getJsonVars>>

(***************************************************************************)
(* Merge and persist.                                                      *)
(***************************************************************************)
\* Lines 195-197: the frames the append branch of earthquakes_command may
\* hand to to_csv, given the rows read from the file and the new frame.
MergeEarthquakes(old, new) ==
  LET combined == DropDuplicates(old \o new, UsgsIdKeys(old \o new))
  IN  SortValues(combined, TimeKeys(combined))

\* Lines 271-273: the same for holidays_command.
MergeHolidays(old, new) ==
  LET combined == DropDuplicates(old \o new, DateCountryDedupKeys(old \o new))
  IN  SortValues(combined, DateCountryKeys(combined))

\* The branch test without "and not args.overwrite".
AppendBranchIgnoringOverwrite(ow) == file.exists

\* Line 192 and line 269: the append branch is taken.
AppendBranch(ow) == file.exists /\ ~ow

\* earthquakes_command, lines 192-198, up to the point where to_csv has
\* opened the file for writing.
EarthquakesMergeOpen ==
  /\ pc = "persist"
  /\ connector = "earthquakes"
  /\ overwrite' \in BOOLEAN
  /\ AppendBranch(overwrite')
  /\ ~ReadCsvFails(file)
  /\ \E combined \in MergeEarthquakes(ReadCsv(file), df) :
       text' = ToCsv(combined, TRUE)
  /\ file' = Truncated
  /\ pc' = "writing"
  /\ UNCHANGED <<connector, country, stateFile, dataCard, runs, windowVars, argVars,
                 years,
                 yearIdx, frames, calls, df, ghostVars, outcome, getJsonVars>>

\* holidays_command, lines 269-274, up to the point where to_csv has opened
\* the file for writing.
HolidaysMergeOpen ==
  /\ pc = "persist"
  /\ connector = "holidays"
  /\ overwrite' \in BOOLEAN
  /\ AppendBranch(overwrite')
  /\ ~ReadCsvFails(file)
  /\ \E combined \in MergeHolidays(ReadCsv(file), df) :
       text' = ToCsv(combined, TRUE)
  /\ file' = Truncated
  /\ pc' = "writing"
  /\ UNCHANGED <<connector, country, stateFile, dataCard, runs, windowVars, argVars,
                 years,
                 yearIdx, frames, calls, df, ghostVars, outcome, getJsonVars>>

\* The append branch taking a file read_csv cannot load for no file: the
\* frame is written in its place.
MergeReadFailsThenWrites ==
  /\ pc = "persist"
  /\ AppendBranch(FALSE)
  /\ ReadCsvFails(file)
  /\ overwrite' = FALSE
  /\ text' = ToCsv(df, df # <<>>)
  /\ file' = Truncated
  /\ pc' = "writing"
  /\ UNCHANGED <<connector, country, stateFile, dataCard, runs, windowVars, argVars,
                 years,
                 yearIdx, frames, calls, df, ghostVars, outcome, getJsonVars>>

\* Lines 194 and 270: pd.read_csv raises on the existing file; nothing
\* catches the error, so the command ends.
MergeReadFails ==
  /\ pc = "persist"
  /\ \E ow \in BOOLEAN : AppendBranch(ow)
  /\ ReadCsvFails(file)
  /\ DropArgs
  /\ Abort("EmptyDataError")
  /\ UNCHANGED <<connector, country, diskVars, runs, calls, getJsonVars>>

\* Lines 200 and 276: the frame is written as it is, up to the point where
\* to_csv has opened the file for writing.
WriteNewOpen ==
  /\ pc = "persist"
  /\ overwrite' \in BOOLEAN
  /\ ~AppendBranch(overwrite')
  /\ text' = ToCsv(df, df # <<>>)
  /\ file' = Truncated
  /\ pc' = "writing"
  /\ UNCHANGED <<connector, country, stateFile, dataCard, runs, windowVars, argVars,
                 years,
                 yearIdx, frames, calls, df, ghostVars, outcome, getJsonVars>>

\* to_csv writes the text and closes the file.
ToCsvWrite ==
  /\ pc = "writing"
  /\ file' = text
  /\ pc' = "card"
  /\ UNCHANGED <<connector, country, stateFile, dataCard, runs, runVars, ghostVars,
                 outcome, getJsonVars>>

\* earthquakes_command, lines 203-209: the section is appended.
EarthquakesDataCard ==
  /\ pc = "card"
  /\ connector = "earthquakes"
  /\ dataCard' = AppendSection(dataCard, "USGS Earthquakes")
  /\ pc' = "state"
  /\ UNCHANGED <<connector, country, file, stateFile, runs, runVars, ghostVars,
                 outcome, getJsonVars>>

\* earthquakes_command, lines 211-213: the end boundary of the run (line 180)
\* is written to the state and the command ends.
WriteState ==
  /\ pc = "state"
  /\ \E argEnd \in {NotGiven} \cup Days, today \in Days :
       stateFile' = StateText(EndBoundary(argEnd, today))
  /\ pc' = "idle"
  /\ outcome' = "completed"
  /\ before' = file
  /\ completed' = completed + 1
  /\ DropLocals
  /\ DropArgs
  /\ UNCHANGED <<connector, country, file, dataCard, runs, calls, getJsonVars>>

\* holidays_command, lines 278-287: the section is appended and the command
\* ends.
HolidaysDataCard ==
  /\ pc = "card"
  /\ connector = "holidays"
  /\ years # <<>>
  /\ dataCard' = AppendSection(dataCard, "Public Holidays")
  /\ pc' = "idle"
  /\ outcome' = "completed"
  /\ before' = file
  /\ completed' = completed + 1
  /\ DropLocals
  /\ DropArgs
  /\ UNCHANGED <<connector, country, file, stateFile, runs, calls, getJsonVars>>

\* holidays_command, line 281: min(years) raises ValueError on the empty
\* list of years, after the table was written.
HolidaysDataCardFails ==
  /\ pc = "card"
  /\ connector = "holidays"
  /\ years = <<>>
  /\ DropArgs
  /\ Abort("ValueError")
  /\ UNCHANGED <<connector, country, diskVars, runs, calls, getJsonVars>>

\* The process is interrupted, or a write fails, while a command runs.  A
\* to_csv under way leaves part of its text, and so does the write_text of
\* write_state (line 66).
Interrupt ==
  /\ pc # "idle"
  /\ IF pc = "writing" THEN file' \in PartialWrites(text) ELSE file' = file
  /\ pc' = "idle"
  /\ outcome' = "interrupted"
  /\ IF pc = "state"
       THEN \E argEnd \in {NotGiven} \cup Days, today \in Days :
              stateFile' \in {stateFile}
                  \cup PartialStateWrites(StateText(EndBoundary(argEnd, today)))
       ELSE stateFile' = stateFile
  /\ before' = file'
  /\ UNCHANGED completed
  /\ DropLocals
  /\ DropArgs
  /\ UNCHANGED <<connector, country, dataCard, runs, calls, getJsonVars>>

Next ==
  \/ EarthquakesStart
  \/ EarthquakesBadBBox
  \/ HolidaysStart
  \/ HolidaysBadYears
  \/ UsgsFetchRaises
  \/ UsgsFetchReturn
  \/ HolidaysFetchRaises
  \/ HolidaysFetchReturn
  \/ EarthquakesMergeOpen
  \/ HolidaysMergeOpen
  \/ MergeReadFails
  \/ WriteNewOpen
  \/ ToCsvWrite
  \/ EarthquakesDataCard
  \/ WriteState
  \/ HolidaysDataCard
  \/ HolidaysDataCardFails
  \/ Interrupt

Spec == Init /\ [][Next]_vars

(***************************************************************************)
(* Properties of get_json, checked under SpecGetJson.                      *)
(***************************************************************************)
\* A status the specification calls retryable: 429 or any 5xx.
Retryable(status) == status = 429 \/ (status >= 500 /\ status <= 599)

\* A 4xx status other than 429.
ClientError(status) == status >= 400 /\ status <= 499 /\ status # 429

\* The call slept after its last response and has not issued the next
\* request yet.
JustSlept ==
  /\ result = "pending"
  /\ attempt > 0
  /\ GetJsonOutcome(resp.status, attempt) = "sleep"

C6RetriesUntilSuccess ==
  (only5xx /\ attempt < max_retries) => result = "pending"

\* C6, second half: the delay slept after a response is backoff ** attempt
\* only when the response has no Retry-After header.
C6RetryAfterHonoured ==
  JustSlept => ((delay = BackoffDelay(attempt)) = (resp.retry_after = NoHeader))

\* C6 (retry then success): k < max_retries responses with status 429 or
\* 5xx followed by a 200 make k + 1 requests and return; the delay slept
\* after attempt a is the Retry-After value of the response whenever the
\* header is present, and backoff ** a only when it is absent.
C6RetryThenSuccess == C6RetriesUntilSuccess /\ C6RetryAfterHonoured

\* C7 (retryable set): a response with status 429 or any 5xx status to a
\* request on an attempt below max_retries does not fail the call; the call
\* sleeps and goes on to the next request.
C7RetryableSet ==
  (attempt > 0 /\ attempt < max_retries /\ Retryable(resp.status)) => JustSlept

\* C8 (non-retryable statuses): a request answered with a 4xx status other
\* than 429, on whichever attempt, makes the call raise in that iteration
\* without a sleep, and a call that has raised issues no further request and
\* sleeps no more.
C8NonRetryableRaises ==
  [][ /\ (attempt' = attempt + 1 /\ ClientError(resp'.status))
         => (result' = "raised" /\ sleeps' = sleeps)
      /\ result = "raised" => (attempt' = attempt /\ sleeps' = sleeps) ]_vars

\* C8: a 404 on the third attempt, after two retried responses, has raised.
C8RaisedOnThirdAttempt ==
  /\ resp.status = 404
  /\ attempt = 3
  /\ sleeps = 2
  /\ result = "raised"

\* C9 (bounded termination): whatever the statuses of the responses, a
\* get_json call issues at most max_retries requests and has returned or
\* raised once it has issued that many.
C9BoundedRequests ==
  /\ attempt <= max_retries
  /\ attempt = max_retries => result # "pending"

(***************************************************************************)
(* Properties of the commands, checked under Spec.  The rows of the table  *)
(* are compared as the lines the file holds.  The locals of a command      *)
(* (df, overwrite) and the table it found (before) are known while it      *)
(* runs: after to_csv has written, pc is "card" or "state".                *)
(***************************************************************************)
\* The last command ran to its end.
Completed == pc = "idle" /\ outcome = "completed"

\* to_csv has returned and the command is still running.
Persisted == pc \in {"card", "state"}

\* The dedup key and the natural (sort) key of the connector's table.
DedupKeyOf(row) ==
  IF connector = "earthquakes" THEN UsgsIdKey(row) ELSE DateCountryDedupKey(row)
SortKeyOf(row) ==
  IF connector = "earthquakes" THEN TimeKey(row) ELSE DateCountryKey(row)

NoDuplicateKeys(rows) ==
  \A i, j \in DOMAIN rows : DedupKeyOf(rows[i]) = DedupKeyOf(rows[j]) => i = j

IsSorted(rows) ==
  \A i, j \in DOMAIN rows : i < j => SortKeyOf(rows[i]) <= SortKeyOf(rows[j])

\* Row i is the first row of its key in rows.
FirstOfKey(rows, i) ==
  \A j \in 1 .. (i - 1) : DedupKeyOf(rows[j]) # DedupKeyOf(rows[i])

\* C1 (dedup key uniqueness): after every completed run, whichever branch
\* wrote the table and whatever rows were fetched, no two rows of the
\* persisted table have the same dedup key.
C1UniqueKeys == Completed => NoDuplicateKeys(file.rows)

\* C2 (idempotence of the seismic fetch): an earthquakes run without
\* --overwrite that finds the table an earlier run fetching the same rows
\* wrote (those rows, sorted by time) leaves the table with the row count it
\* had.
C2SameRowCount ==
  ( /\ connector = "earthquakes"
    /\ Persisted
    /\ ~overwrite
    /\ df # <<>>
    /\ before \in {ToCsv(first, TRUE) : first \in SortValues(df, TimeKeys(df))} )
  => Len(file.rows) = Len(before.rows)

\* C3 (atomic persist): when a run is interrupted, or its write fails, the
\* table file is the complete table the run found or the complete table it
\* was writing.
C3AtomicPersist ==
  [][ (pc # "idle" /\ outcome' = "interrupted")
        => \/ file' = before
           \/ (pc \in {"writing", "card", "state"} /\ file' = text) ]_vars

\* C4 (first-seen-wins): after a run without --overwrite on an existing
\* table, for every dedup key of the table the run found, the persisted
\* table holds the first row the found table had for that key, and no other
\* row of that key.
C4FirstSeenWins ==
  (Persisted /\ ~overwrite /\ before.exists) =>
    \A i \in DOMAIN before.rows :
      FirstOfKey(before.rows, i) =>
        /\ \E j \in DOMAIN file.rows : file.rows[j] = before.rows[i]
        /\ \A j \in DOMAIN file.rows :
             DedupKeyOf(file.rows[j]) = DedupKeyOf(before.rows[i])
               => file.rows[j] = before.rows[i]

\* C10 (sorted tables): the frame a connector returns is sorted ascending by
\* the natural key, and so is the table every completed run leaves, as
\* read_csv loads it.
C10SortedByNaturalKey ==
  /\ pc = "persist" => IsSorted(df)
  /\ Completed => IsSorted(ReadCsv(file))

\* The tables the append branch may write, given the table found and the
\* frame fetched.
Merged(found, new) ==
  IF connector = "earthquakes"
    THEN {ToCsv(c, TRUE) : c \in MergeEarthquakes(ReadCsv(found), new)}
    ELSE {ToCsv(c, TRUE) : c \in MergeHolidays(ReadCsv(found), new)}

\* C11 (overwrite semantics): with --overwrite set, or with no table file,
\* the persisted table is exactly the frame fetched (no row of the table
\* found survives unless it was fetched again); with --overwrite unset and
\* a table present, the persisted table is the deduplicated and sorted
\* concatenation of the table found and the frame fetched.
C11OverwriteSemantics ==
  Persisted =>
    IF overwrite \/ ~before.exists
      THEN file = ToCsv(df, df # <<>>)
      ELSE file \in Merged(before, df)

\* C11: a run with --overwrite has replaced a table that held a row the run
\* did not fetch.
C11Overwritten ==
  /\ Persisted
  /\ overwrite
  /\ df # <<>>
  /\ \E i \in DOMAIN before.rows :
       \A j \in DOMAIN file.rows : file.rows[j] # before.rows[i]

\* C12 (a failed fetch changes nothing): from the start of a command to the
\* end of its fetch, the table file, the state file and the data card are
\* not written (the table is the one the command found), and a get_json
\* call that raises, on whichever year, ends the command there.
C12FailedFetchChangesNothing ==
  [][ /\ (pc = "fetch" \/ pc' = "fetch")
         => (UNCHANGED <<file, stateFile, dataCard>> /\ file' = before')
      /\ (pc = "fetch" /\ outcome' = "HTTPError") => pc' = "idle" ]_vars

\* C12: a holidays command has ended with the error of its second get_json
\* call (the first year was fetched), and the table it found is there.
C12SecondYearFailed ==
  /\ pc = "idle"
  /\ outcome = "HTTPError"
  /\ calls = 2
  /\ file.head = "cols"
  /\ file.rows # <<>>

\* C13 (unparsable existing table): a command without --overwrite that
\* finds a table file read_csv cannot load ends with the error of read_csv
\* (or is interrupted), and the table file, the state file and the data card
\* stay as they are.
C13UnparsableTableAborts ==
  [][ (pc = "persist" /\ file.exists /\ ReadCsvFails(file) /\ ~overwrite')
        => /\ pc' = "idle"
           /\ outcome' \in {"EmptyDataError", "interrupted"}
           /\ UNCHANGED <<file, stateFile, dataCard>> ]_vars

\* C13: a command has ended with the error of read_csv after fetching rows,
\* and the file it could not load is still there.
C13ReadFailed ==
  /\ pc = "idle"
  /\ outcome = "EmptyDataError"
  /\ calls > 0
  /\ file.exists
  /\ ReadCsvFails(file)

\* The default start boundaries: today minus 7 days, for the days a run may
\* run on.
Lookbacks == {today - 7 : today \in Days}

\* A step that starts an earthquakes command which gets as far as its fetch.
EarthquakesStarts == connector = "earthquakes" /\ pc = "idle" /\ pc' = "fetch"

\* C14 (watermark carry-over): the state file is written only by the step
\* that completes an earthquakes run, which leaves it holding the end
\* boundary of that run, and any other step, of a run that aborts included,
\* leaves it as it is; so a run given no --start starts at the last_end the
\* file holds, the end boundary of the most recent completed run, and at
\* today minus 7 days when there is no state file.
C14WatermarkCarryOver ==
  [][ /\ stateFile' # stateFile
         => (pc = "state" /\ outcome' = "completed" /\ stateFile'.parses)
      /\ stateFile.exists => stateFile.parses
      /\ (EarthquakesStarts /\ argStart' = NotGiven)
         => start' \in IF stateFile.exists THEN {stateFile.last_end} ELSE Lookbacks
    ]_vars

\* C15 (corrupt state is tolerated): an earthquakes command started on a
\* state file json.loads does not parse does not fail on it (it gets to its
\* fetch unless --bbox is rejected), and given no --start it starts at
\* today minus 7 days, as with no state file.
C15CorruptStateTolerated ==
  [][ ( /\ connector = "earthquakes"
        /\ pc = "idle"
        /\ runs' = runs + 1
        /\ ~ (stateFile.exists /\ stateFile.parses) )
      => \/ outcome' \in {"SystemExit", "ValueError"}
         \/ /\ pc' = "fetch"
            /\ start' \in IF argStart' # NotGiven THEN {argStart'} ELSE Lookbacks
    ]_vars

\* C15: a command given no --start is fetching from the default start
\* boundary, the state file holding an unparsable text with a last_end in it.
C15StartedOnCorruptState ==
  /\ pc = "fetch"
  /\ stateFile.exists
  /\ ~stateFile.parses
  /\ stateFile.last_end # NotGiven
  /\ argStart = NotGiven
  /\ start \in Lookbacks

\* ---------------------------------------------------------------------
\* C16  Validation precedes network.  A command started on malformed input
\* (a --bbox text that is not exactly four comma-separated numbers, a
\* --years text that is not a year or a start:end pair of years) ends in
\* that same step with an error, having issued no request and having left
\* the table, the run state and the data card as they were.
\* The empty text is such an input; lines 183 and 265 test the argument for
\* truth, so the command runs as if the option had not been given.
BBoxMalformed(b) == b \notin {"None", "1,2,3,4"}
YearsMalformed(span) ==
  /\ span # NoYears
  /\ \/ Len(span) \notin {1, 2}
     \/ \E i \in 1..Len(span) : ~IsInt(span[i])
CommandStarts == pc = "idle" /\ runs' = runs + 1
C16ValidationPrecedesNetwork ==
  [][ (CommandStarts /\ (BBoxMalformed(argBBox') \/ YearsMalformed(argYears')))
        => /\ pc' = "idle"
           /\ outcome' \in {"SystemExit", "ValueError"}
           /\ calls' = 0
           /\ UNCHANGED diskVars
    ]_vars

\* ---------------------------------------------------------------------
\* C17  The data card is append-only with one section per successful run:
\* between commands it holds exactly one section for each command that has
\* completed, under a header written once; no step alters or removes an
\* earlier section; a command that ends without completing has appended no
\* section.
\* The earthquakes command appends its section (lines 203-209) before it
\* writes the run state (line 212): a command stopped by that write has
\* left a section behind.
C17DataCardAppendOnly ==
  /\ [](pc = "idle" =>
          /\ Len(dataCard.sections) = completed
          /\ dataCard.headers = IF completed > 0 THEN 1 ELSE 0)
  /\ [][ /\ Len(dataCard'.sections) >= Len(dataCard.sections)
         /\ SubSeq(dataCard'.sections, 1, Len(dataCard.sections))
              = dataCard.sections
         /\ (pc' = "idle" /\ outcome' # "completed")
              => dataCard' = dataCard
       ]_vars

\* ---------------------------------------------------------------------
\* C18  Year-span fan-out.  In a holidays command run on a --years text,
\* the year list is every integer from the first year of the text to its
\* last, ascending ("y" gives [y]); while fetching, the k-th request is the
\* one for the k-th year of the list, and once the fetch is over exactly
\* one request per year has been made: N requests for an N-year span.
YearsOf(span) ==
  LET a == IntOf(span[1])
      b == IntOf(span[Len(span)])
  IN  [i \in 1..(b - a + 1) |-> a + i - 1]
C18YearSpanFanOut ==
  (connector = "holidays" /\ pc # "idle" /\ YearsIsGiven(argYears))
    => /\ years = YearsOf(argYears)
       /\ pc = "fetch" => (yearIdx \in 1..Len(years) /\ calls = yearIdx)
       /\ pc # "fetch" => calls = Len(years)
C18TwoYearsFetched ==
  /\ connector = "holidays"
  /\ pc = "persist"
  /\ argYears = <<"1", "2">>
  /\ years = <<1, 2>>
  /\ calls = 2

\* ---------------------------------------------------------------------
\* C19  The watermark is never ahead of the data.  An earthquakes command
\* takes its steps in the order fetch, persist, data card, run state; the
\* state file is written only once the table holds the complete text of
\* the rows the command merged and the section is appended; and whenever
\* no command is running, after an interrupted command too, a state file
\* that was written stands beside a table file that holds a table.
\* The steps are in that order.  But to_csv writes in place (C3): a later
\* command stopped inside its table write leaves the watermark of the
\* earlier command beside a truncated table.
StepOrder == <<"idle", "fetch", "persist", "writing", "card", "state", "idle">>
C19WatermarkNeverAhead ==
  /\ []((pc = "idle" /\ stateFile.exists) => (file.exists /\ file.head # "none"))
  /\ [][ /\ stateFile' # stateFile
              => /\ pc = "state"
                 /\ file = text
                 /\ file' = file
                 /\ dataCard.exists
         /\ (connector = "earthquakes" /\ pc' # pc /\ pc' # "idle")
              => \E k \in 1..5 : StepOrder[k] = pc /\ StepOrder[k + 1] = pc'
       ]_vars

\* ---------------------------------------------------------------------
\* C20  Empty fetches do not break later runs.  A command without
\* --overwrite whose fetch has succeeded, on a directory whose table file
\* is absent or was left by a completed write, ends completed unless it is
\* interrupted; and when such a command fetched no row and found a table,
\* the table it writes has the rows it found.
\* A first run that fetched no row writes the frame without columns, a
\* file of one blank line; read_csv raises EmptyDataError on it in the
\* next run.
RowSet(rows) == {rows[i] : i \in DOMAIN rows}
FetchBehind == pc \in {"persist", "writing", "card", "state"}
C20EmptyFetchesDoNotBreak ==
  [][ /\ (FetchBehind /\ pc' = "idle" /\ ~(pc = "persist" /\ file = Truncated))
          => outcome' \in {"completed", "interrupted"}
      /\ (pc = "persist" /\ pc' = "writing" /\ df = <<>> /\ ~overwrite'
            /\ file.exists)
          => /\ Len(text'.rows) = Len(file.rows)
             /\ RowSet(text'.rows) = RowSet(file.rows)
    ]_vars

====
